---- MODULE Spec2Model ----
(***************************************************************************)
(* flexi_logger (src/src/lib.rs): the directive matcher, the logging-spec  *)
(* parser, the one-time initialisation through log::set_logger, and the    *)
(* file writer with size-based rollover that concurrent log calls share    *)
(* behind a mutex.                                                         *)
(*                                                                         *)
(* Strings are sequences of one-character strings.  Option<T> is a         *)
(* sequence of length 0 (None) or 1 (Some(v)).                             *)
(***************************************************************************)
EXTENDS Integers, Sequences, FiniteSets, TLC

VARIABLES
    state,            \* log crate: UNINITIALIZED / INITIALIZING / INITIALIZED
    directives,       \* FlexiLogger.directives
    o_filter,         \* FlexiLogger.o_filter
    config,           \* FlexiLogger.config (None before the logger is built)
    max_level,        \* log crate: the maximum level the log macros let through
    olw,              \* OptLineWriter.olw: None or Some(name of the open file)
    o_filename_base,  \* OptLineWriter.o_filename_base
    use_rolling,      \* OptLineWriter.use_rolling
    written_bytes,    \* OptLineWriter.written_bytes
    roll_idx,         \* OptLineWriter.roll_idx
    lock,             \* holder of the Mutex around the OptLineWriter, 0 = free
    poisoned,         \* the Mutex is poisoned (a holder panicked)
    disk,             \* the files of the log directory: name -> lines
    dirState,         \* the log directory: "ok", "missing" or "file"
    pc,               \* position of each logging thread
    rec,              \* the record each logging thread is working on
    initpc,           \* position / result of each init call
    initarg,          \* arguments of each init call
    stdout,           \* what println! wrote
    stderr,           \* what print_err! / writeln!(stderr) wrote
    hist,             \* history: what has happened so far (not program state)
    probe,            \* input and result of the last pure-function application
    watcher           \* the background thread that watches the specification file

vars == <<state, directives, o_filter, config, max_level, olw, o_filename_base,
          use_rolling, written_bytes, roll_idx, lock, poisoned, disk,
          dirState, pc, rec, initpc, initarg, stdout, stderr, hist, probe,
          watcher>>

----------------------------------------------------------------------------
(* Bounds of the model *)

NThreads   == 2     \* logging threads
MaxCalls   == 3     \* log calls of one run
MaxInits   == 2     \* init calls of one run
MaxDirs    == 2     \* directives of a list drawn for the matcher

----------------------------------------------------------------------------
(* Option, strings *)

None == <<>>
Some(v) == <<v>>
IsSome(o) == o # <<>>
Unwrap(o) == o[1]

Max(a, b) == IF a >= b THEN a ELSE b

\* str::starts_with
starts_with(s, p) == Len(p) <= Len(s) /\ SubSeq(s, 1, Len(p)) = p

\* str::ends_with
ends_with(s, p) == Len(p) <= Len(s) /\ SubSeq(s, Len(s) - Len(p) + 1, Len(s)) = p

\* all strings over alphabet A of length at most n
StringsUpTo(A, n) == UNION {[1..k -> A] : k \in 0..n}

----------------------------------------------------------------------------
(* LogLevel / LogLevelFilter of the log crate, by ordinal *)

Off   == 0
Error == 1
Warn  == 2
Info  == 3
Debug == 4
Trace == 5

LogLevels       == Error..Trace     \* LogLevel: the level of a record
LogLevelFilters == Off..Trace       \* LogLevelFilter: the level of a directive

\* struct LogDirective
LogDirective(name, level) == [name |-> name, level |-> level]

----------------------------------------------------------------------------
(* FlexiLogger::fl_enabled *)

\* the directive at position i decides the call
directive_applies(d, target) ==
    ~(IsSome(d.name) /\ ~starts_with(target, Unwrap(d.name)))

RECURSIVE fl_scan_rev(_, _, _, _)
fl_scan_rev(dirs, i, level, target) ==
    IF i = 0 THEN FALSE
    ELSE IF directive_applies(dirs[i], target) THEN level <= dirs[i].level
    ELSE fl_scan_rev(dirs, i - 1, level, target)

RECURSIVE fl_scan_fwd(_, _, _, _)
fl_scan_fwd(dirs, i, level, target) ==
    IF i > Len(dirs) THEN FALSE
    ELSE IF directive_applies(dirs[i], target) THEN level <= dirs[i].level
    ELSE fl_scan_fwd(dirs, i + 1, level, target)

\* a matcher that forgets .rev(): the first applicable directive decides
fl_enabled_no_rev(dirs, level, target) == fl_scan_fwd(dirs, 1, level, target)

fl_enabled(dirs, level, target) == fl_scan_rev(dirs, Len(dirs), level, target)

----------------------------------------------------------------------------
(* init: directives.sort_by(name length), a stable sort *)

name_len(d) == IF IsSome(d.name) THEN Len(Unwrap(d.name)) ELSE 0

\* insert d behind every element that is not longer (keeps equal keys in order)
RECURSIVE insert_stable(_, _)
insert_stable(sorted, d) ==
    IF sorted = <<>> THEN <<d>>
    ELSE IF name_len(sorted[Len(sorted)]) <= name_len(d) THEN Append(sorted, d)
    ELSE Append(insert_stable(SubSeq(sorted, 1, Len(sorted) - 1), d),
                sorted[Len(sorted)])

RECURSIVE sort_from(_, _, _)
sort_from(dirs, i, acc) ==
    IF i > Len(dirs) THEN acc
    ELSE sort_from(dirs, i + 1, insert_stable(acc, dirs[i]))

\* an init that leaves the directives in the order of the text
sort_by_len_skipped(dirs) == dirs

sort_by_len(dirs) == sort_from(dirs, 1, <<>>)

\* init: max_level.set(max of the directive levels, Off if there is none)
RECURSIVE max_level_of(_)
max_level_of(dirs) ==
    IF dirs = <<>> THEN Off
    ELSE Max(Head(dirs).level, max_level_of(Tail(dirs)))

----------------------------------------------------------------------------
(* parse_logging_spec *)

\* str::split(c): the pieces between the occurrences of c, empty ones included
RECURSIVE split_from(_, _, _, _)
split_from(s, c, i, cur) ==
    IF i > Len(s) THEN <<cur>>
    ELSE IF s[i] = c THEN <<cur>> \o split_from(s, c, i + 1, <<>>)
    ELSE split_from(s, c, i + 1, Append(cur, s[i]))

split(s, c) == split_from(s, c, 1, <<>>)

\* str::trim
RECURSIVE trim_left(_)
trim_left(s) == IF s # <<>> /\ Head(s) = " " THEN trim_left(Tail(s)) ELSE s

RECURSIVE trim_right(_)
trim_right(s) ==
    IF s # <<>> /\ s[Len(s)] = " " THEN trim_right(SubSeq(s, 1, Len(s) - 1)) ELSE s

trim(s) == trim_right(trim_left(s))

LowerCase == <<"a","b","c","d","e","f","g","h","i","j","k","l","m",
               "n","o","p","q","r","s","t","u","v","w","x","y","z">>
UpperCase == <<"A","B","C","D","E","F","G","H","I","J","K","L","M",
               "N","O","P","Q","R","S","T","U","V","W","X","Y","Z">>

to_ascii_uppercase(c) ==
    IF \E k \in 1..Len(LowerCase) : LowerCase[k] = c
    THEN UpperCase[CHOOSE k \in 1..Len(LowerCase) : LowerCase[k] = c]
    ELSE c

eq_ignore_ascii_case(a, b) ==
    /\ Len(a) = Len(b)
    /\ \A k \in 1..Len(a) : to_ascii_uppercase(a[k]) = to_ascii_uppercase(b[k])

\* log crate, LOG_LEVEL_NAMES: the name of ordinal k is LOG_LEVEL_NAMES[k + 1]
LOG_LEVEL_NAMES == << <<"O","F","F">>, <<"E","R","R","O","R">>, <<"W","A","R","N">>,
                      <<"I","N","F","O">>, <<"D","E","B","U","G">>,
                      <<"T","R","A","C","E">> >>

\* str::parse::<LogLevelFilter>(): Some(ordinal) for a level name in any case,
\* None (Err) for everything else
parse_level(s) ==
    IF \E k \in 1..Len(LOG_LEVEL_NAMES) : eq_ignore_ascii_case(LOG_LEVEL_NAMES[k], s)
    THEN Some((CHOOSE k \in 1..Len(LOG_LEVEL_NAMES) :
                   eq_ignore_ascii_case(LOG_LEVEL_NAMES[k], s)) - 1)
    ELSE None

\* Regex::new: the model knows literal patterns; a pattern with an unclosed
\* group does not compile
regex_new(pattern) ==
    IF \E k \in 1..Len(pattern) : pattern[k] = "(" THEN None ELSE Some(pattern)

\* a match that only looks at the start of the text
is_match_anchored(re, text) == starts_with(text, re)

\* Regex::is_match of a literal pattern: the text contains it
is_match(re, text) ==
    \E k \in 0..(Len(text) - Len(re)) : SubSeq(text, k + 1, k + Len(re)) = re

\* one rule of the comma-separated list: the directives it adds (none or one)
\* and the diagnostics it prints
parse_rule(s) ==
    LET parts == split(s, "=")
        part0 == parts[1]
        part1 == trim(parts[2])
    IN  IF Len(parts) = 1 THEN
            IF IsSome(parse_level(part0))
            THEN [dirs |-> <<LogDirective(None, Unwrap(parse_level(part0)))>>,
                  diags |-> <<>>]
            ELSE [dirs |-> <<LogDirective(Some(part0), Trace)>>, diags |-> <<>>]
        ELSE IF Len(parts) = 2 THEN
            IF part1 = <<>>
            THEN [dirs |-> <<LogDirective(Some(part0), Trace)>>, diags |-> <<>>]
            ELSE IF IsSome(parse_level(part1))
            THEN [dirs |-> <<LogDirective(Some(part0), Unwrap(parse_level(part1)))>>,
                  diags |-> <<>>]
            ELSE [dirs |-> <<>>, diags |-> <<"invalid logging spec">>]
        ELSE [dirs |-> <<>>, diags |-> <<"invalid logging spec">>]

\* a loop that gives up at the first rule it cannot parse (break for continue)
RECURSIVE parse_rules_break(_, _, _)
parse_rules_break(rules, i, acc) ==
    IF i > Len(rules) THEN acc
    ELSE IF rules[i] = <<>> THEN parse_rules_break(rules, i + 1, acc)
    ELSE LET r == parse_rule(rules[i])
         IN  IF r.dirs = <<>>
             THEN [dirs |-> acc.dirs, diags |-> acc.diags \o r.diags]
             ELSE parse_rules_break(rules, i + 1,
                         [dirs |-> acc.dirs \o r.dirs, diags |-> acc.diags \o r.diags])

RECURSIVE parse_rules(_, _, _)
parse_rules(rules, i, acc) ==
    IF i > Len(rules) THEN acc
    ELSE IF rules[i] = <<>> THEN parse_rules(rules, i + 1, acc)
    ELSE LET r == parse_rule(rules[i])
         IN  parse_rules(rules, i + 1,
                         [dirs |-> acc.dirs \o r.dirs, diags |-> acc.diags \o r.diags])

\* a parser that ignores what follows a second '/'
parse_logging_spec_lenient(spec) ==
    LET parts == split(spec, "/")
        mods  == parse_rules(split(parts[1], ","), 1, [dirs |-> <<>>, diags |-> <<>>])
        re    == IF Len(parts) >= 2 THEN regex_new(parts[2]) ELSE None
    IN  [dirs   |-> mods.dirs,
         filter |-> re,
         diags  |-> mods.diags \o
                    (IF Len(parts) >= 2 /\ ~IsSome(re)
                     THEN <<"invalid regex filter">> ELSE <<>>)]

parse_logging_spec(spec) ==
    LET parts == split(spec, "/")
        mods  == parse_rules(split(parts[1], ","), 1, [dirs |-> <<>>, diags |-> <<>>])
        re    == IF Len(parts) >= 2 THEN regex_new(parts[2]) ELSE None
    IN  IF Len(parts) >= 3
        THEN [dirs |-> <<>>, filter |-> None, diags |-> <<"too many '/'s">>]
        ELSE [dirs   |-> mods.dirs,
              filter |-> re,
              diags  |-> mods.diags \o
                         (IF Len(parts) >= 2 /\ ~IsSome(re)
                          THEN <<"invalid regex filter">> ELSE <<>>)]

----------------------------------------------------------------------------
(* File names: get_filename_base, get_filename, get_filename_pattern,       *)
(* get_next_roll_idx                                                        *)

\* the program name: file stem of env::args()[0]
progname == <<"p">>

\* time::strftime("_%Y-%m-%d_%H-%M-%S", now): one token stands for the time
timestamp == <<"_", "t">>

DigitChars == <<"0","1","2","3","4","5","6","7","8","9">>

\* format!("{}", n) of a usize
RECURSIVE to_string(_)
to_string(n) ==
    IF n < 10 THEN <<DigitChars[n + 1]>>
    ELSE Append(to_string(n \div 10), DigitChars[(n % 10) + 1])

is_digit(c) == \E k \in 1..10 : DigitChars[k] = c
digit_value(c) == (CHOOSE k \in 1..10 : DigitChars[k] = c) - 1

RECURSIVE digits_value(_, _)
digits_value(s, acc) ==
    IF s = <<>> THEN acc ELSE digits_value(Tail(s), 10 * acc + digit_value(Head(s)))

\* str::parse::<usize>(): Some(n) for a non-empty string of digits, else None
parse_usize(s) ==
    IF s # <<>> /\ \A k \in 1..Len(s) : is_digit(s[k])
    THEN Some(digits_value(s, 0)) ELSE None

get_filename_base(s_directory, o_discriminant) ==
    s_directory \o <<"/">> \o progname \o
    (IF IsSome(o_discriminant) THEN <<"_">> \o Unwrap(o_discriminant) ELSE <<>>)

get_filename(s_filename_base, do_rolling, idx, o_suffix) ==
    s_filename_base \o
    (IF do_rolling THEN <<"_">> \o to_string(idx) ELSE timestamp) \o
    (IF IsSome(o_suffix) THEN <<".">> \o Unwrap(o_suffix) ELSE <<>>)

\* glob(base_*[.suffix]): '*' matches any run of characters without '/'
glob_matches(s_filename_base, o_suffix, name) ==
    LET pre  == s_filename_base \o <<"_">>
        post == IF IsSome(o_suffix) THEN <<".">> \o Unwrap(o_suffix) ELSE <<>>
    IN  /\ Len(name) >= Len(pre) + Len(post)
        /\ starts_with(name, pre)
        /\ ends_with(name, post)
        /\ \A k \in (Len(pre) + 1)..(Len(name) - Len(post)) : name[k] # "/"

\* the last position where pat occurs in s, 0 if it does not occur
last_index_of(s, pat) ==
    LET hits == {k \in 1..(Len(s) - Len(pat) + 1) : SubSeq(s, k, k + Len(pat) - 1) = pat}
    IN  IF hits = {} THEN 0 ELSE CHOOSE k \in hits : \A j \in hits : j <= k

\* Path::file_stem: the part behind the last '/', without its extension
file_stem(path) ==
    LET slash == last_index_of(path, <<"/">>)
        fname == SubSeq(path, slash + 1, Len(path))
        dot   == last_index_of(fname, <<".">>)
    IN  IF dot <= 1 THEN fname ELSE SubSeq(fname, 1, dot - 1)

\* filename.rsplit("_r").next(): what follows the last "_r" (all if there is none)
rsplit_first(s, pat) ==
    LET k == last_index_of(s, pat)
    IN  IF k = 0 THEN s ELSE SubSeq(s, k + Len(pat), Len(s))

\* the index get_next_roll_idx reads from one found path
found_idx(path) ==
    LET parsed == parse_usize(rsplit_first(file_stem(path), <<"_", "r">>))
    IN  IF IsSome(parsed) THEN Unwrap(parsed) ELSE 0

RECURSIVE max_found_idx(_)
max_found_idx(paths) ==
    IF paths = {} THEN 0
    ELSE LET q == CHOOSE x \in paths : TRUE
         IN  Max(found_idx(q), max_found_idx(paths \ {q}))

get_next_roll_idx(s_filename_base, o_suffix, files) ==
    max_found_idx({n \in files : glob_matches(s_filename_base, o_suffix, n)}) + 1

----------------------------------------------------------------------------
(* Inputs *)

Threads == 1..NThreads
Inits   == 1..MaxInits

RolloverSize == 1   \* the rollover_size of a configuration with rollover

\* struct LogConfig; format is the function format_line below
LogConfigFor(to_file, sizes) ==
    [log_to_file     : {to_file},
     print_message   : {TRUE},
     duplicate_error : {FALSE},
     duplicate_info  : {FALSE},
     directory       : {Some(<<"d">>)},
     suffix          : {Some(<<"l", "o", "g">>)},
     rollover_size   : sizes,
     o_discriminant  : {None}]

LogConfigs ==
    LogConfigFor(FALSE, {None}) \cup LogConfigFor(TRUE, {None, Some(RolloverSize)})

\* the loglevelspec argument of init, and the RUST_LOG variable
SpecTexts == { <<"a","/","x">> }
RustLogs  == { None, Some(<<"a","/","x">>) }

InitArgs ==
    [config : LogConfigs, loglevelspec : {Some(t) : t \in SpecTexts}, rust_log : {None}]
    \cup [config : LogConfigs, loglevelspec : {None}, rust_log : RustLogs]

\* what a log call carries: level, target (module path) and message text
Targets  == { <<"a">>, <<"b">> }
Messages == { <<>>, <<"x">>, <<"y">> }

\* lines 270-271: (config.format)(record) and msg.push('\n'), for a format
\* function that renders the message text alone
format_line(level, target, text) == Append(text, "\n")

\* a line of an earlier run of the program
OldLine == <<0, 1>>

\* the rotation files an earlier run may have left in the directory "d"
OldFileSets ==
    { {},
      { <<"d","/","p","_","1",".","l","o","g">>, <<"d","/","p","_","2",".","l","o","g">> },
      { <<"d","/","p","_","r","2",".","l","o","g">> } }

NoRec  == [id |-> 0, len |-> 0]

\* no specification file is watched
NoWatcher == [pc |-> "off", pending |-> FALSE, text |-> <<>>]
NoArg  == <<>>

----------------------------------------------------------------------------
(* The file system *)

\* File::create can only succeed in a directory that exists
create_may_succeed(ds) == ds = "ok"

\* File::create(name): the file exists and is empty afterwards
file_created(files, name) ==
    [n \in (DOMAIN files) \cup {name} |-> IF n = name THEN <<>> ELSE files[n]]

\* LineWriter::write of one line to the open file
append_line(files, name, line) ==
    [files EXCEPT ![name] = Append(@, line)]

----------------------------------------------------------------------------
(* OptLineWriter::new, up to the call of mount_linewriter *)

s_directory_of(cfg) == IF IsSome(cfg.directory) THEN Unwrap(cfg.directory) ELSE <<".">>

\* a construction that does not look at the directory
dir_usable_unchecked(ds) == TRUE

\* metadata(directory) is Ok and is_dir()
dir_usable(ds) == ds = "ok"

new_filename_base(cfg, ds) ==
    IF cfg.log_to_file /\ dir_usable(ds)
    THEN Some(get_filename_base(s_directory_of(cfg), cfg.o_discriminant))
    ELSE None

new_use_rolling(cfg, ds) ==
    IsSome(new_filename_base(cfg, ds)) /\ IsSome(cfg.rollover_size)

new_roll_idx(cfg, ds, files) ==
    IF new_use_rolling(cfg, ds)
    THEN get_next_roll_idx(Unwrap(new_filename_base(cfg, ds)), cfg.suffix, DOMAIN files)
    ELSE 0

\* the diagnostic of line 100: print_err! is the argument of unwrap_or, so it is
\* evaluated (and printed) before unwrap_or looks at the result
new_diags(cfg, ds) ==
    IF cfg.log_to_file THEN <<"output directory could not be created">> ELSE <<>>

\* the println! lines of get_next_roll_idx ("Found: ...", "idx = ...")
new_prints(cfg, ds, files) ==
    IF new_use_rolling(cfg, ds)
    THEN LET found == {n \in DOMAIN files :
                          glob_matches(Unwrap(new_filename_base(cfg, ds)), cfg.suffix, n)}
         IN  IF found = {} THEN <<>> ELSE << <<"found", found>> >>
    ELSE <<>>

\* mount_linewriter: the println! of the file name
mount_prints(cfg, name) ==
    IF cfg.print_message THEN << <<"Log is written to", name>> >> ELSE <<>>

----------------------------------------------------------------------------
(* Initial state: the process has started, nothing is initialised *)

NoHist ==
    [ncalls       |-> 0,      \* log calls that emitted a line so far
     passed       |-> {},     \* calls that reached the file writer
     returned     |-> {},     \* calls that returned normally
     entered      |-> <<>>,   \* calls in the order they took the writer's lock
     oldFiles     |-> {},     \* files present when the process started
     first        |-> 0,      \* the init call that won the registration
     built        |-> FALSE,  \* OptLineWriter::new has completed
     startIdx     |-> 0,      \* roll_idx chosen by OptLineWriter::new
     remounts     |-> 0,      \* remounts started by log calls
     remountFailed|-> FALSE,  \* a remount could not create its file
     createFailed |-> {}]     \* init calls whose File::create failed

\* no logger is registered, no thread is logging, nothing was printed
NothingStarted ==
    /\ state = "UNINITIALIZED"
    /\ o_filter = None
    /\ max_level = Off
    /\ config = None
    /\ olw = None
    /\ o_filename_base = None
    /\ use_rolling = FALSE
    /\ written_bytes = 0
    /\ roll_idx = 0
    /\ lock = 0
    /\ poisoned = FALSE
    /\ pc = [t \in Threads |-> "idle"]
    /\ rec = [t \in Threads |-> NoRec]
    /\ initpc = [i \in Inits |-> "ready"]
    /\ initarg = [i \in Inits |-> NoArg]
    /\ stdout = <<>>
    /\ stderr = <<>>
    /\ watcher = NoWatcher

ProcessStart ==
    /\ NothingStarted
    /\ directives = <<>>
    /\ dirState \in {"ok", "missing", "file"}
    /\ \E F \in OldFileSets :
          /\ dirState # "ok" => F = {}
          /\ disk = [n \in F |-> <<OldLine>>]
    /\ hist = [NoHist EXCEPT !.oldFiles = DOMAIN disk]
    /\ probe = <<>>

writer_vars == <<olw, o_filename_base, use_rolling, written_bytes, roll_idx>>
logger_vars == <<directives, o_filter, config, max_level>>
thread_vars == <<pc, rec, lock, poisoned>>

----------------------------------------------------------------------------
(* init, first half: log::set_logger's compare_and_swap on STATE *)

\* a registration that does not look at STATE
may_register_always(s) == TRUE

\* STATE.compare_and_swap(UNINITIALIZED, INITIALIZING) succeeds
may_register(s) == s = "UNINITIALIZED"

InitBegin(i, arg) ==
    /\ initpc[i] = "ready"
    /\ \A j \in 1..(i - 1) : initpc[j] # "ready"   \* calls are numbered as they arrive
    /\ IF may_register(state)
       THEN /\ state' = "INITIALIZING"
            /\ initpc' = [initpc EXCEPT ![i] = "closure"]
            /\ initarg' = [initarg EXCEPT ![i] = arg]
            /\ hist' = [hist EXCEPT !.first = IF @ = 0 THEN i ELSE @]
       ELSE \* Err(SetLoggerError) becomes Err(FlexiLoggerError)
            /\ initpc' = [initpc EXCEPT ![i] = "err"]
            /\ UNCHANGED <<state, initarg, hist>>
    /\ UNCHANGED <<logger_vars, writer_vars, thread_vars, disk, dirState,
                   stdout, stderr, probe, watcher>>

(* init, second half: the closure builds the logger, set_logger stores it *)

DefaultSpec == [dirs |-> <<LogDirective(None, Error)>>, filter |-> None, diags |-> <<>>]

parsed_spec(arg) ==
    IF IsSome(arg.loglevelspec) THEN parse_logging_spec(Unwrap(arg.loglevelspec))
    ELSE IF IsSome(arg.rust_log) THEN parse_logging_spec(Unwrap(arg.rust_log))
    ELSE DefaultSpec

InitClosure(i, created) ==
    LET arg     == initarg[i]
        cfg     == arg.config
        parsed  == parsed_spec(arg)
        base    == new_filename_base(cfg, dirState)
        rolling == new_use_rolling(cfg, dirState)
        idx     == new_roll_idx(cfg, dirState, disk)
        mounts  == IsSome(base)
        name    == get_filename(Unwrap(base), rolling, idx, cfg.suffix)
    IN  /\ initpc[i] = "closure"
        /\ created \in (IF ~mounts THEN {TRUE}
                        ELSE IF create_may_succeed(dirState) THEN BOOLEAN ELSE {FALSE})
        /\ stderr' = stderr \o parsed.diags \o new_diags(cfg, dirState)
        /\ stdout' = stdout \o new_prints(cfg, dirState, disk)
                            \o (IF mounts THEN mount_prints(cfg, name) ELSE <<>>)
        /\ IF created
           THEN /\ directives' = sort_by_len(parsed.dirs)
                /\ o_filter' = parsed.filter
                /\ config' = Some(cfg)
                /\ max_level' = max_level_of(sort_by_len(parsed.dirs))
                /\ o_filename_base' = base
                /\ use_rolling' = rolling
                /\ written_bytes' = 0
                /\ roll_idx' = idx
                /\ olw' = IF mounts THEN Some(name) ELSE None
                /\ disk' = IF mounts THEN file_created(disk, name) ELSE disk
                /\ state' = "INITIALIZED"
                /\ initpc' = [initpc EXCEPT ![i] = "ok"]
                /\ hist' = [hist EXCEPT !.built = TRUE, !.startIdx = idx]
           ELSE \* File::create(..).unwrap() panics inside the closure
                /\ initpc' = [initpc EXCEPT ![i] = "panic"]
                /\ hist' = [hist EXCEPT !.createFailed = @ \cup {i}]
                /\ UNCHANGED <<logger_vars, writer_vars, disk, state>>
        /\ initarg' = [initarg EXCEPT ![i] = NoArg]
        /\ UNCHANGED <<thread_vars, dirState, probe, watcher>>

----------------------------------------------------------------------------
(* FlexiLogger::log *)

cfg_now == Unwrap(config)

\* a duplication that only knows the error flag
duplicates_error_only(cfg, level) == cfg.duplicate_error /\ level = Error

\* lines 273-274: the record is copied to stdout
duplicates(cfg, level) ==
    \/ cfg.duplicate_error /\ level = Error
    \/ cfg.duplicate_info /\ level = Info

\* lines 260-276 and 300-302: the enabled check, the content filter, the
\* format call, the duplication to stdout, and the stderr destination
LogStartBody(t, level, target, text) ==
    LET id == hist.ncalls + 1
        len == Len(format_line(level, target, text))
        enabled  == fl_enabled(directives, level, target)
        filtered == IsSome(o_filter) /\ is_match(Unwrap(o_filter), text)
        dup == duplicates(cfg_now, level)
    IN  /\ state = "INITIALIZED"
        /\ pc[t] = "idle"
        /\ \A u \in 1..(t - 1) : pc[u] # "idle"     \* the lowest idle thread calls
        /\ hist.ncalls < MaxCalls
        /\ IF ~enabled \/ filtered
           THEN \* return: the call leaves no trace
                UNCHANGED <<pc, rec, stdout, stderr, hist>>
           ELSE IF cfg_now.log_to_file
           THEN /\ stdout' = IF dup THEN Append(stdout, <<"dup", id>>) ELSE stdout
                /\ pc' = [pc EXCEPT ![t] = "lock"]
                /\ rec' = [rec EXCEPT ![t] = [id |-> id, len |-> len]]
                /\ hist' = [hist EXCEPT !.ncalls = id, !.passed = @ \cup {id}]
                /\ UNCHANGED stderr
           ELSE /\ stderr' = Append(stderr, <<"line", id>>)
                /\ hist' = [hist EXCEPT !.ncalls = id, !.returned = @ \cup {id}]
                /\ UNCHANGED <<pc, rec, stdout>>
        /\ UNCHANGED <<state, logger_vars, writer_vars, lock, poisoned, disk,
                       dirState, initpc, initarg, watcher>>

LogStart(t, level, target, text) ==
    /\ LogStartBody(t, level, target, text)
    /\ UNCHANGED probe

\* the same call, its arguments kept for inspection
LogCall(t, level, target, text) ==
    /\ LogStartBody(t, level, target, text)
    /\ probe' = [level |-> level, target |-> target, text |-> text]

\* a lock that never blocks
lock_free_always(holder) == TRUE

\* Mutex::lock blocks while another thread holds the guard
lock_free(holder) == holder = 0

\* line 280: amo_lw.lock().unwrap()
LogLock(t) ==
    /\ pc[t] = "lock"
    /\ lock_free(lock)
    /\ IF poisoned
       THEN \* lock() returns Err(PoisonError), unwrap panics, the guard is dropped
            /\ pc' = [pc EXCEPT ![t] = "panic_poison"]
            /\ UNCHANGED <<lock, hist>>
       ELSE /\ lock' = t
            /\ pc' = [pc EXCEPT ![t] = "check"]
            /\ hist' = [hist EXCEPT !.entered = Append(@, rec[t].id)]
    /\ UNCHANGED <<state, logger_vars, writer_vars, rec, poisoned, disk, dirState,
                   initpc, initarg, watcher, stdout, stderr, probe>>

\* a rollover test that compares the wrong way round
over_threshold_reversed(bytes, size) == bytes < size

\* line 285: olw.written_bytes > rollover_size
over_threshold(bytes, size) == bytes > size

\* line 285: the rollover test
LogCheck(t) ==
    /\ pc[t] = "check"
    /\ pc' = [pc EXCEPT ![t] =
                 IF use_rolling /\ over_threshold(written_bytes, Unwrap(cfg_now.rollover_size))
                 THEN "remount" ELSE "write"]
    /\ UNCHANGED <<state, logger_vars, writer_vars, rec, lock, poisoned, disk, dirState,
                   initpc, initarg, watcher, stdout, stderr, hist, probe>>

\* a remount that keeps the index
next_roll_idx_kept(idx) == idx

\* line 288: olw.roll_idx += 1
next_roll_idx(idx) == idx + 1

\* a remount that keeps the byte count
bytes_after_remount_kept(bytes) == bytes

\* line 287: olw.written_bytes = 0
bytes_after_remount(bytes) == 0

\* lines 286-289: close the file, reset the counter, advance the index, mount
LogRemount(t, created) ==
    LET idx  == next_roll_idx(roll_idx)
        name == get_filename(Unwrap(o_filename_base), use_rolling, idx, cfg_now.suffix)
    IN  /\ pc[t] = "remount"
        /\ created \in (IF create_may_succeed(dirState) THEN BOOLEAN ELSE {FALSE})
        /\ written_bytes' = bytes_after_remount(written_bytes)
        /\ roll_idx' = idx
        /\ stdout' = stdout \o mount_prints(cfg_now, name)
        /\ IF created
           THEN /\ olw' = Some(name)
                /\ disk' = file_created(disk, name)
                /\ pc' = [pc EXCEPT ![t] = "write"]
                /\ hist' = [hist EXCEPT !.remounts = @ + 1]
                /\ UNCHANGED <<lock, poisoned>>
           ELSE \* File::create(..).unwrap() panics while the guard is held
                /\ olw' = None
                /\ pc' = [pc EXCEPT ![t] = "panic_create"]
                /\ lock' = 0
                /\ poisoned' = TRUE
                /\ hist' = [hist EXCEPT !.remounts = @ + 1, !.remountFailed = TRUE]
                /\ UNCHANGED disk
        /\ UNCHANGED <<state, logger_vars, o_filename_base, use_rolling, rec, dirState,
                       initpc, initarg, watcher, stderr, probe>>

\* lines 291-299: write the line, count its bytes, release the lock
LogWrite(t, written) ==
    /\ pc[t] = "write"
    /\ written \in (IF IsSome(olw) THEN BOOLEAN ELSE {TRUE})
    /\ IF ~IsSome(olw)
       THEN \* "Folder is broken, logging not possible"
            /\ pc' = [pc EXCEPT ![t] = "idle"]
            /\ hist' = [hist EXCEPT !.returned = @ \cup {rec[t].id}]
            /\ UNCHANGED <<written_bytes, disk, poisoned>>
       ELSE IF written
       THEN /\ disk' = append_line(disk, Unwrap(olw), <<rec[t].id, rec[t].len>>)
            /\ written_bytes' = IF use_rolling THEN written_bytes + rec[t].len
                                ELSE written_bytes
            /\ pc' = [pc EXCEPT ![t] = "idle"]
            /\ hist' = [hist EXCEPT !.returned = @ \cup {rec[t].id}]
            /\ UNCHANGED poisoned
       ELSE \* panic!("File logger: write failed with {}")
            /\ pc' = [pc EXCEPT ![t] = "panic_write"]
            /\ poisoned' = TRUE
            /\ UNCHANGED <<written_bytes, disk, hist>>
    /\ lock' = 0
    /\ rec' = [rec EXCEPT ![t] = IF pc'[t] = "idle" THEN NoRec ELSE @]
    /\ UNCHANGED <<state, logger_vars, olw, o_filename_base, use_rolling, roll_idx,
                   dirState, initpc, initarg, watcher, stdout, stderr, probe>>

----------------------------------------------------------------------------
(* The program: init calls and logging threads *)

Next ==
    \/ \E i \in Inits, arg \in InitArgs : InitBegin(i, arg)
    \/ \E i \in Inits, created \in BOOLEAN : InitClosure(i, created)
    \/ \E t \in Threads, level \in LogLevels, target \in Targets, text \in Messages :
          LogStart(t, level, target, text)
    \/ \E t \in Threads : LogLock(t)
    \/ \E t \in Threads : LogCheck(t)
    \/ \E t \in Threads, created \in BOOLEAN : LogRemount(t, created)
    \/ \E t \in Threads, written \in BOOLEAN : LogWrite(t, written)

Spec == ProcessStart /\ [][Next]_vars

----------------------------------------------------------------------------
(* The matcher on its own: fl_enabled applied to the directive lists that   *)
(* init's sort produces                                                     *)

MatchAlphabet == {"a", "b"}
MatchStrings  == StringsUpTo(MatchAlphabet, 2)
MatchNames    == {None} \cup {Some(n) : n \in MatchStrings}
MatchLevels   == {Off, Warn, Trace}
MatchTargets  == MatchStrings \ {<<>>}
MatchDirectives == {LogDirective(n, l) : n \in MatchNames, l \in MatchLevels}
MatchLists    == UNION {[1..k -> MatchDirectives] : k \in 0..MaxDirs}

MatchInit ==
    /\ NothingStarted
    /\ \E raw \in MatchLists : directives = sort_by_len(raw)
    /\ dirState = "ok"
    /\ disk = <<>>
    /\ hist = NoHist
    /\ probe = <<>>

\* Log::enabled
Enabled(level, target) ==
    /\ probe' = [level |-> level, target |-> target,
                 result |-> fl_enabled(directives, level, target)]
    /\ UNCHANGED <<state, logger_vars, writer_vars, thread_vars, disk, dirState,
                   initpc, initarg, watcher, stdout, stderr, hist>>

MatchNext == \E level \in LogLevels, target \in MatchTargets : Enabled(level, target)

SpecMatch == MatchInit /\ [][MatchNext]_vars

----------------------------------------------------------------------------
(* The parser on its own: parse_logging_spec and init's sort applied to     *)
(* specification texts, and Log::enabled asked of the result                *)

MaxRules == 2     \* comma-separated rules of a specification text

\* the rules the texts are built from
RuleTexts ==
    { <<>>,
      <<"a">>,
      <<"a","b">>,
      <<"a","=","w","a","r","n">>,
      <<"a","=","o","f","f">>,
      <<"a","b","="," ","I","N","F","O">>,
      <<"e","r","r","o","r">>,
      <<"a","=","x">>,
      <<"a","=","w","a","r","n","=">>,
      <<"5">>,
      <<"a","=","3">>,
      <<"a","=">>,
      <<"=","w","a","r","n">> }

\* what follows the rules: nothing, a filter, or a filter and a second '/'
FilterTexts == { <<>>, <<"/","x">>, <<"/","x","/","y">> }

RECURSIVE join(_, _)
join(pieces, sep) ==
    IF Len(pieces) = 0 THEN <<>>
    ELSE IF Len(pieces) = 1 THEN pieces[1]
    ELSE pieces[1] \o sep \o join(Tail(pieces), sep)

ParseTexts ==
    { join(rs, <<",">>) \o f :
        rs \in UNION {[1..k -> RuleTexts] : k \in 1..MaxRules}, f \in FilterTexts }

ParseTargets == { <<>>, <<"a">>, <<"a","b">>, <<"b">> }

NoQuery == [level |-> Off, target |-> <<>>, result |-> FALSE]

ParseInit ==
    /\ NothingStarted
    /\ directives = <<>>
    /\ dirState = "ok"
    /\ disk = <<>>
    /\ hist = NoHist
    /\ \E text \in ParseTexts :
          probe = [op |-> "text", text |-> text, raw |-> <<>>, query |-> NoQuery]

\* init, lines 482-499: parse the text, sort the directives
ParseSpec ==
    LET parsed == parse_logging_spec(probe.text)
    IN  /\ probe.op = "text"
        /\ directives' = sort_by_len(parsed.dirs)
        /\ o_filter' = parsed.filter
        /\ max_level' = max_level_of(sort_by_len(parsed.dirs))
        /\ stderr' = stderr \o parsed.diags
        /\ probe' = [probe EXCEPT !.op = "parsed", !.raw = parsed.dirs]
        /\ UNCHANGED <<state, config, writer_vars, thread_vars, disk, dirState,
                       initpc, initarg, watcher, stdout, hist>>

\* Log::enabled on the parsed directives
EnabledParsed(level, target) ==
    /\ probe.op \in {"parsed", "enabled"}
    /\ probe' = [probe EXCEPT !.op = "enabled",
                              !.query = [level |-> level, target |-> target,
                                         result |-> fl_enabled(directives, level, target)]]
    /\ UNCHANGED <<state, logger_vars, writer_vars, thread_vars, disk, dirState,
                   initpc, initarg, watcher, stdout, stderr, hist>>

ParseNext ==
    \/ ParseSpec
    \/ \E level \in LogLevels, target \in ParseTargets : EnabledParsed(level, target)

SpecParse == ParseInit /\ [][ParseNext]_vars

----------------------------------------------------------------------------
(* One thread logging through a logger of any destination and duplication   *)
(* setting, the arguments of each call kept                                 *)

EmitConfigs ==
    [log_to_file     : {FALSE},
     print_message   : {TRUE},
     duplicate_error : {TRUE},
     duplicate_info  : {TRUE},
     directory       : {Some(<<"d">>)},
     suffix          : {Some(<<"l", "o", "g">>)},
     rollover_size   : {None},
     o_discriminant  : {None}]
    \cup
    [log_to_file     : {TRUE},
     print_message   : {TRUE},
     duplicate_error : BOOLEAN,
     duplicate_info  : BOOLEAN,
     directory       : {Some(<<"d">>)},
     suffix          : {Some(<<"l", "o", "g">>)},
     rollover_size   : {None, Some(RolloverSize)},
     o_discriminant  : {None}]

EmitSpecTexts == { <<"a","=","i","n","f","o","/","x">> }

EmitInitArgs ==
    [config : EmitConfigs, loglevelspec : {Some(t) : t \in EmitSpecTexts}, rust_log : {None}]

EmitLevels   == { Error, Warn, Info, Debug }
EmitTargets  == { <<"a">>, <<"b">> }
EmitMessages == { <<>>, <<"y">>, <<"x">>, <<"y","x">> }

NoCall == [level |-> Off, target |-> <<>>, text |-> <<>>]

EmitStart ==
    /\ NothingStarted
    /\ directives = <<>>
    /\ dirState \in {"ok", "missing"}
    /\ disk = <<>>
    /\ hist = NoHist
    /\ probe = NoCall

EmitNext ==
    \/ \E arg \in EmitInitArgs : InitBegin(1, arg)
    \/ \E created \in BOOLEAN : InitClosure(1, created)
    \/ \E level \in EmitLevels, target \in EmitTargets, text \in EmitMessages :
          LogCall(1, level, target, text)
    \/ LogLock(1)
    \/ LogCheck(1)
    \/ \E created \in BOOLEAN : LogRemount(1, created)
    \/ \E written \in BOOLEAN : LogWrite(1, written)

SpecEmit == EmitStart /\ [][EmitNext]_vars

----------------------------------------------------------------------------
(* The specification file (tests/test_specfile.rs: start_with_specfile):    *)
(* a background thread re-reads the file when it changes and replaces the   *)
(* active specification; log calls read the active specification            *)

MaxReloads == 2     \* change events the watcher handles in one run

\* the watched file
SpecFile == <<"s">>

\* the documents written to the file; the last one cannot be parsed
ReloadTexts ==
    { <<"e","r","r","o","r">>, <<"d","e","b","u","g">>, <<"/","/">> }

\* an unparsable document is never installed
reload_accepts_all(text) == TRUE

\* the document parses: it is not a whole-parse failure
reload_accepts(text) == Len(split(text, "/")) <= 2

\* what the holder holds after a replace with the given document
installed(text) == sort_by_len(parse_logging_spec(text).dirs)

ReloadInit ==
    /\ state = "INITIALIZED"
    /\ config = Some(CHOOSE c \in LogConfigFor(FALSE, {None}) : TRUE)
    /\ olw = None
    /\ o_filename_base = None
    /\ use_rolling = FALSE
    /\ written_bytes = 0
    /\ roll_idx = 0
    /\ lock = 0
    /\ poisoned = FALSE
    /\ pc = [t \in Threads |-> "idle"]
    /\ rec = [t \in Threads |-> NoRec]
    /\ initpc = [i \in Inits |-> "ready"]
    /\ initarg = [i \in Inits |-> NoArg]
    /\ stdout = <<>>
    /\ stderr = <<>>
    /\ dirState = "ok"
    /\ probe = <<>>
    /\ watcher = [pc |-> "idle", pending |-> FALSE, text |-> <<>>]
    /\ \E text \in ReloadTexts \ {<<"/","/">>} :     \* Logger::with_str(text)
          /\ disk = [n \in {SpecFile} |-> text]
          /\ directives = installed(text)
          /\ o_filter = parse_logging_spec(text).filter
          /\ max_level = max_level_of(installed(text))
          /\ hist = [initial |-> text, seen |-> <<>>]

\* somebody replaces the content of the file; the watcher is notified
WriteSpecFile(text) ==
    /\ text # disk[SpecFile]
    /\ disk' = [disk EXCEPT ![SpecFile] = text]
    /\ watcher' = [watcher EXCEPT !.pending = TRUE]
    /\ UNCHANGED <<state, logger_vars, writer_vars, thread_vars, dirState,
                   initpc, initarg, stdout, stderr, hist, probe>>

\* the watcher takes the change event and reads the file
WatcherRead ==
    /\ watcher.pc = "idle"
    /\ watcher.pending
    /\ Len(hist.seen) < MaxReloads
    /\ watcher' = [pc |-> "parsed", pending |-> FALSE, text |-> disk[SpecFile]]
    /\ hist' = [hist EXCEPT !.seen = Append(@, disk[SpecFile])]
    /\ UNCHANGED <<state, logger_vars, writer_vars, thread_vars, disk, dirState,
                   initpc, initarg, stdout, stderr, probe>>

\* the watcher parses what it read and replaces the active specification in
\* one step; a document that does not parse gives a diagnostic and no replace
WatcherReplace ==
    LET parsed == parse_logging_spec(watcher.text)
    IN  /\ watcher.pc = "parsed"
        /\ watcher' = [watcher EXCEPT !.pc = "idle", !.text = <<>>]
        /\ stderr' = stderr \o parsed.diags
        /\ IF reload_accepts(watcher.text)
           THEN /\ directives' = installed(watcher.text)
                /\ o_filter' = parsed.filter
                /\ max_level' = max_level_of(installed(watcher.text))
                \* what was read before the replace is of the older specification
                /\ rec' = [t \in Threads |->
                              IF pc[t] = "read" THEN [rec[t] EXCEPT !.stale = TRUE]
                              ELSE rec[t]]
                /\ probe' = IF probe = <<>> THEN probe ELSE [probe EXCEPT !.stale = TRUE]
           ELSE UNCHANGED <<directives, o_filter, max_level, rec, probe>>
        /\ UNCHANGED <<state, config, writer_vars, pc, lock, poisoned, disk, dirState,
                       initpc, initarg, stdout, hist>>

\* a log call reads the active specification ...
ShouldEmitRead(t) ==
    /\ pc[t] = "idle"
    /\ \A u \in 1..(t - 1) : pc[u] # "idle"     \* the lowest idle thread calls
    /\ pc' = [pc EXCEPT ![t] = "read"]
    /\ rec' = [rec EXCEPT ![t] = [dirs |-> directives, stale |-> FALSE]]
    /\ UNCHANGED <<state, logger_vars, writer_vars, lock, poisoned, disk, dirState,
                   initpc, initarg, stdout, stderr, hist, probe, watcher>>

\* ... and evaluates the enabled check on what it read
ShouldEmitEval(t, level, target) ==
    /\ pc[t] = "read"
    /\ pc' = [pc EXCEPT ![t] = "idle"]
    /\ rec' = [rec EXCEPT ![t] = NoRec]
    /\ probe' = [level |-> level, target |-> target, stale |-> rec[t].stale,
                 result |-> fl_enabled(rec[t].dirs, level, target)]
    /\ UNCHANGED <<state, logger_vars, writer_vars, lock, poisoned, disk, dirState,
                   initpc, initarg, stdout, stderr, hist, watcher>>

ReloadNext ==
    \/ \E text \in ReloadTexts : WriteSpecFile(text)
    \/ WatcherRead
    \/ WatcherReplace
    \/ \E t \in Threads : ShouldEmitRead(t)
    \/ \E t \in Threads : ShouldEmitEval(t, Info, <<"a">>)

SpecReload == ReloadInit /\ [][ReloadNext]_vars

----------------------------------------------------------------------------
(* Checked properties *)

\* the indices of the directives whose prefix matches the target
Matching(dirs, target) ==
    {i \in 1..Len(dirs) :
        \/ dirs[i].name = None
        \/ /\ Len(dirs[i].name[1]) <= Len(target)
           /\ \A k \in 1..Len(dirs[i].name[1]) : dirs[i].name[1][k] = target[k]}

PrefixLen(d) == IF d.name = None THEN 0 ELSE Len(d.name[1])

SortedByPrefixLen(dirs) ==
    \A i, j \in 1..Len(dirs) : i <= j => PrefixLen(dirs[i]) <= PrefixLen(dirs[j])

\* C1: on a directive list sorted ascending by prefix length, the enabled check
\* answers level <= min_level of a directive whose prefix is the longest one
\* matching the target, and answers "disabled" when no directive matches.
C1_LongestPrefixDecides ==
    probe # <<>> =>
        LET M == Matching(directives, probe.target)
        IN  /\ SortedByPrefixLen(directives)
            /\ IF M = {} THEN probe.result = FALSE
               ELSE \E i \in M :
                       /\ \A j \in M : PrefixLen(directives[j]) <= PrefixLen(directives[i])
                       /\ probe.result = (probe.level <= directives[i].level)

\* C1 witness: a shorter and a longer prefix both match, they disagree about the
\* level, and the answer is the longer one's.
C1_Witness ==
    /\ probe # <<>>
    /\ \E i, j \in Matching(directives, probe.target) :
          /\ PrefixLen(directives[i]) < PrefixLen(directives[j])
          /\ (probe.level <= directives[i].level) # (probe.level <= directives[j].level)
          /\ probe.result = (probe.level <= directives[j].level)
          /\ \A k \in Matching(directives, probe.target) :
                PrefixLen(directives[k]) <= PrefixLen(directives[j])

----------------------------------------------------------------------------
(* The writer as the files show it *)

Panics == {"panic_create", "panic_write", "panic_poison"}

\* thread t is between taking the lock and releasing it
InCritical(t) == pc[t] \in {"check", "remount", "write"}

\* no log call is inside the critical section
AtRest == \A t \in Threads : ~InCritical(t)

\* the rotation file of index i, by the naming policy <base>_<idx>.<suffix>
RotationFile(i) ==
    Unwrap(o_filename_base) \o <<"_">> \o to_string(i) \o <<".">> \o Unwrap(cfg_now.suffix)

\* the lines this run has put into a file
RECURSIVE own_lines(_)
own_lines(lines) ==
    IF lines = <<>> THEN <<>>
    ELSE IF Head(lines)[1] > 0 THEN <<Head(lines)>> \o own_lines(Tail(lines))
    ELSE own_lines(Tail(lines))

OwnLines(i) ==
    IF RotationFile(i) \in DOMAIN disk THEN own_lines(disk[RotationFile(i)]) ELSE <<>>

RECURSIVE LineBytes(_)
LineBytes(lines) == IF lines = <<>> THEN 0 ELSE Head(lines)[2] + LineBytes(Tail(lines))

Threshold == Unwrap(cfg_now.rollover_size)

\* the files of this run that grew beyond the threshold
Crossings ==
    Cardinality({i \in hist.startIdx..roll_idx : LineBytes(OwnLines(i)) > Threshold})

\* where the line of call id stands: <<file, position>>
Places(id) ==
    {p \in UNION {{<<n, k>> : k \in 1..Len(disk[n])} : n \in DOMAIN disk} :
        disk[p[1]][p[2]][1] = id}

EnteredAt(id) == CHOOSE k \in 1..Len(hist.entered) : hist.entered[k] = id

----------------------------------------------------------------------------
\* C2: the rollover test, the remount, the write and the counter update run
\* under the writer's lock: at most one thread is between lock and unlock, and
\* it holds the lock; every file that was rotated away had grown beyond the
\* threshold (no second remount for the same crossing), every remount advanced
\* the index by one, and no line is written while the counter is over the
\* threshold.
C2_RemountUnderLock ==
    /\ \A t, u \in Threads : InCritical(t) /\ InCritical(u) => t = u
    /\ \A t \in Threads : InCritical(t) => lock = t
    /\ use_rolling =>
          /\ roll_idx = hist.startIdx + hist.remounts
          /\ \A i \in hist.startIdx..(roll_idx - 1) : LineBytes(OwnLines(i)) > Threshold
          /\ \A t \in Threads : pc[t] = "write" => written_bytes <= Threshold

\* C2 witness: one thread has seen the counter over the threshold and is about
\* to remount while another thread waits for the lock.
C2_Witness ==
    \E t, u \in Threads :
        /\ pc[t] = "remount"
        /\ pc[u] = "lock"
        /\ written_bytes > Threshold

\* C3: on a writer that was mounted at construction, every call that passed the
\* enabled check and the content filter and has returned has its line exactly
\* once in exactly one file; no line is there twice, no line is there of a call
\* that did not reach the writer, and the lines of each file stand in the order
\* in which their calls took the lock.
C3_EachLineOnceInOrder ==
    /\ \A id \in 1..hist.ncalls :
          /\ Cardinality(Places(id)) <= 1
          /\ Places(id) # {} => id \in hist.passed /\ \E k \in 1..Len(hist.entered) : hist.entered[k] = id
          /\ (id \in hist.passed /\ id \in hist.returned /\ IsSome(o_filename_base))
                => Cardinality(Places(id)) = 1
    /\ \A n \in DOMAIN disk : \A j, k \in 1..Len(disk[n]) :
          (j < k /\ disk[n][j][1] > 0 /\ disk[n][k][1] > 0)
             => EnteredAt(disk[n][j][1]) < EnteredAt(disk[n][k][1])

\* C3 witness: three calls have returned, the second call took the lock before
\* the first, a rotation lies between them, and an earlier file still holds
\* its line.
C3_Witness ==
    /\ hist.returned = 1..3
    /\ hist.passed = 1..3
    /\ hist.entered[1] = 2
    /\ hist.remounts >= 1
    /\ \A id \in 1..3 : Cardinality(Places(id)) = 1

\* C4 as claimed: whenever no call is in the critical section, the remounts
\* performed are as many as the times the bytes written since the last mount
\* exceeded the threshold.
C4_RemountPerCrossing_Claimed ==
    (use_rolling /\ AtRest) => hist.remounts = Crossings

\* C4 (amended): the remount for a crossing is performed by the next call that
\* enters the critical section, not by the write that crosses: whenever no call
\* is in the critical section the remounts performed are as many as the
\* crossings, less the one of the current file while the counter is over the
\* threshold; every remount advances the index by exactly one and leaves the
\* counter at 0.
C4_Pending == IF written_bytes > Threshold THEN 1 ELSE 0

C4_RemountPerCrossing_State ==
    (use_rolling /\ AtRest) =>
        /\ hist.remounts = Crossings - C4_Pending
        /\ roll_idx = hist.startIdx + hist.remounts

C4_RemountPerCrossing_Step ==
    (state = "INITIALIZED" /\ hist'.remounts # hist.remounts) =>
        /\ hist'.remounts = hist.remounts + 1
        /\ roll_idx' = roll_idx + 1
        /\ written_bytes' = 0
        /\ written_bytes > Threshold

C4_RemountPerCrossing ==
    [](C4_RemountPerCrossing_State) /\ [][C4_RemountPerCrossing_Step]_vars

\* C4 witness: two remounts were performed, the current file has crossed the
\* threshold again, and its remount is still to come.
C4_Witness ==
    /\ use_rolling
    /\ AtRest
    /\ hist.remounts = 2
    /\ Crossings = 3
    /\ written_bytes > Threshold

----------------------------------------------------------------------------
\* the indices of the rotation files an earlier run left behind
OldIndices == {i \in 1..9 : RotationFile(i) \in hist.oldFiles}

MaxOf(S) == IF S = {} THEN 0 ELSE CHOOSE m \in S : \A x \in S : x <= m

\* C5 as claimed: when rotation files of earlier runs exist, a writer
\* constructed with rolling enabled starts at their highest index plus one, so
\* the file it mounts first is none of the existing ones.
C5_RestartContinuesNumbering_Claimed ==
    (hist.built /\ use_rolling /\ OldIndices # {}) =>
        /\ hist.startIdx = MaxOf(OldIndices) + 1
        /\ RotationFile(hist.startIdx) \notin hist.oldFiles

\* C6 as claimed: when a remount cannot create its file, the call returns
\* normally and no log call of any thread crashes afterwards.
C6_FailedRemountDegrades_Claimed ==
    hist.remountFailed => \A t \in Threads : pc[t] \notin Panics

\* C7: with a directory that does not exist and cannot be created, construction
\* completes with an Unmounted writer (no file, no base name, rolling off), and
\* the writer stays so for every log call: nothing is written or created, no
\* remount is attempted, counter and index stay 0, and no call crashes.
C7_UnmountedForTheRun ==
    dirState # "ok" =>
        /\ \A i \in Inits : initpc[i] # "panic"
        /\ olw = None
        /\ o_filename_base = None
        /\ ~use_rolling
        /\ written_bytes = 0
        /\ roll_idx = 0
        /\ hist.remounts = 0
        /\ DOMAIN disk = {}
        /\ ~poisoned
        /\ \A t \in Threads : pc[t] \notin Panics \cup {"remount"}

\* C7 witness: the directory is missing, the logger writes to a file, and two
\* calls have gone through the writer and returned.
C7_Witness ==
    /\ dirState = "missing"
    /\ state = "INITIALIZED"
    /\ cfg_now.log_to_file
    /\ IsSome(cfg_now.rollover_size)
    /\ {1, 2} \subseteq (hist.passed \cap hist.returned)

\* C8 as claimed: the rollover happens when the size is reached or exceeded, so
\* a line is only ever appended to a file that held fewer than rollover_size
\* bytes before it.
C8_RollsWhenSizeReached_Claimed ==
    use_rolling =>
        \A i \in hist.startIdx..roll_idx :
            OwnLines(i) # <<>> =>
                LineBytes(SubSeq(OwnLines(i), 1, Len(OwnLines(i)) - 1)) < Threshold

\* C9 as claimed: an init whose output file cannot be created returns
\* Err(FlexiLoggerError).
C9_InitReturnsErr_Claimed ==
    \A i \in hist.createFailed : initpc[i] = "err"

\* C10: only the init call that arrived first can succeed, and it never returns
\* an error; every other call returns an error; and the step of such a call
\* changes nothing of the installed logger, the writer, the files or the output.
C10_InitOnce_State ==
    /\ \A i \in Inits : initpc[i] = "ok" => i = hist.first
    /\ \A i \in Inits : (i # hist.first /\ initpc[i] # "ready") => initpc[i] = "err"
    /\ hist.first # 0 => initpc[hist.first] \in {"closure", "ok", "panic"}

C10_InitOnce_Step ==
    (\E i \in Inits : i # hist.first /\ hist.first # 0 /\ initpc'[i] # initpc[i]) =>
        UNCHANGED <<state, logger_vars, writer_vars, disk, stdout, stderr>>

C10_InitOnce == [](C10_InitOnce_State) /\ [][C10_InitOnce_Step]_vars

\* C10 witness: the first init succeeded, a later one has returned its error,
\* and the logger of the first has written a line.
C10_Witness ==
    /\ hist.first # 0
    /\ initpc[hist.first] = "ok"
    /\ \E i \in Inits : i # hist.first /\ initpc[i] = "err"
    /\ \E n \in DOMAIN disk : own_lines(disk[n]) # <<>>

----------------------------------------------------------------------------
(* The parser and the matcher together *)

\* the positions of the directives of a list that name module m
Naming(dirs, m) == {i \in 1..Len(dirs) : dirs[i].name = Some(m)}

\* the query asked last, and its answer
Asked == probe.query

\* C11 as claimed: every directive (m, L) the parser and the sort produce is
\* reproduced by the enabled check asked with module path m: a level is enabled
\* exactly if it is at or below L, also where several rules name m.
C11_RoundTrip_Claimed ==
    probe.op = "enabled" =>
        \A i \in Naming(directives, Asked.target) :
            Asked.result = (Asked.level <= directives[i].level)

\* C11 (amended): for every non-empty module path m named in the text, the
\* enabled check asked with m reproduces the level L of the last rule of the
\* text that names m: a level is enabled exactly if it is at or below L.
C11_RoundTrip ==
    (probe.op = "enabled" /\ Asked.target # <<>>
                          /\ Naming(probe.raw, Asked.target) # {}) =>
        LET last == MaxOf(Naming(probe.raw, Asked.target))
        IN  Asked.result = (Asked.level <= probe.raw[last].level)

\* C11 witness: two rules of the text name the module asked for, at different
\* levels; the answer is the later rule's and not the earlier one's.
C11_Witness ==
    /\ probe.op = "enabled"
    /\ Asked.target # <<>>
    /\ \E i, j \in Naming(probe.raw, Asked.target) :
          /\ i < j
          /\ j = MaxOf(Naming(probe.raw, Asked.target))
          /\ Asked.result = (Asked.level <= probe.raw[j].level)
          /\ Asked.result # (Asked.level <= probe.raw[i].level)

----------------------------------------------------------------------------
(* The rules of a text, read one by one *)

\* the comma-separated rules of a text, the empty ones left out
RECURSIVE NonEmpty(_)
NonEmpty(pieces) ==
    IF pieces = <<>> THEN <<>>
    ELSE IF Head(pieces) = <<>> THEN NonEmpty(Tail(pieces))
    ELSE <<Head(pieces)>> \o NonEmpty(Tail(pieces))

Slashes(text) == Cardinality({k \in 1..Len(text) : text[k] = "/"})

RulesOf(text) == NonEmpty(split(split(text, "/")[1], ","))

EqPositions(r) == {k \in 1..Len(r) : r[k] = "="}
FirstEq(r)     == CHOOSE k \in EqPositions(r) : \A j \in EqPositions(r) : k <= j
ModuleOf(r)    == SubSeq(r, 1, FirstEq(r) - 1)
LevelTextOf(r) == trim(SubSeq(r, FirstEq(r) + 1, Len(r)))

\* what one rule stands for, by its form alone: a bare level name, a bare
\* module path, module=level (an empty level standing for the maximum), or
\* nothing for an invalid level or a second '='
RuleMeaning(r) ==
    IF EqPositions(r) = {} THEN
        IF IsSome(parse_level(r)) THEN <<LogDirective(None, Unwrap(parse_level(r)))>>
        ELSE <<LogDirective(Some(r), Trace)>>
    ELSE IF Cardinality(EqPositions(r)) = 1 THEN
        IF LevelTextOf(r) = <<>> THEN <<LogDirective(Some(ModuleOf(r)), Trace)>>
        ELSE IF IsSome(parse_level(LevelTextOf(r)))
        THEN <<LogDirective(Some(ModuleOf(r)), Unwrap(parse_level(LevelTextOf(r))))>>
        ELSE <<>>
    ELSE <<>>

RECURSIVE Meanings(_)
Meanings(rules) ==
    IF rules = <<>> THEN <<>> ELSE RuleMeaning(Head(rules)) \o Meanings(Tail(rules))

ValidRules(rules) == {k \in 1..Len(rules) : RuleMeaning(rules[k]) # <<>>}

\* C12: in a text with at most one '/', every comma-separated rule is handled
\* on its own: a bare level name gives the global directive at that level, a
\* bare module path the module at Trace, module=level the module at that level,
\* and a rule with an invalid level or a second '=' gives nothing and leaves
\* the other rules alone; the directives are as many as the valid non-empty
\* rules and stand in the order of the text.
C12_RulesIndependent ==
    (probe.op # "text" /\ Slashes(probe.text) <= 1) =>
        /\ probe.raw = Meanings(RulesOf(probe.text))
        /\ Len(probe.raw) = Cardinality(ValidRules(RulesOf(probe.text)))

\* C12 witness: a text of two rules whose first rule is invalid and whose
\* second is valid has been parsed: one directive, and a diagnostic.
C12_Witness ==
    /\ probe.op = "parsed"
    /\ Slashes(probe.text) <= 1
    /\ Len(RulesOf(probe.text)) = 2
    /\ ValidRules(RulesOf(probe.text)) = {2}
    /\ Len(probe.raw) = 1
    /\ stderr # <<>>

----------------------------------------------------------------------------
\* a level token as the grammar describes it: a level name in any case, or one
\* of the ordinal numbers 0-5
LevelToken(s) ==
    IF IsSome(parse_level(s)) THEN parse_level(s)
    ELSE IF Len(s) = 1 /\ is_digit(s[1]) /\ digit_value(s[1]) <= Trace
    THEN Some(digit_value(s[1]))
    ELSE None

\* C13 as claimed: a level token is a name or an ordinal number, as a bare rule
\* and behind '=': a text that is one bare level token gives the single global
\* directive at that level ("5" gives Trace), and module=token gives the
\* module at that level.
C13_NumericLevels_Claimed ==
    (probe.op # "text" /\ Slashes(probe.text) <= 1 /\ Len(RulesOf(probe.text)) = 1) =>
        LET r == RulesOf(probe.text)[1]
        IN  /\ (EqPositions(r) = {} /\ IsSome(LevelToken(r)))
                  => probe.raw = <<LogDirective(None, Unwrap(LevelToken(r)))>>
            /\ (Cardinality(EqPositions(r)) = 1 /\ IsSome(LevelToken(LevelTextOf(r))))
                  => probe.raw = <<LogDirective(Some(ModuleOf(r)),
                                                Unwrap(LevelToken(LevelTextOf(r))))>>

----------------------------------------------------------------------------
(* What a log call lets out *)

\* the step is a log call arriving (its arguments are in probe afterwards)
CallStep == probe' # probe \/ hist'.ncalls # hist.ncalls

\* the call of the step passed the checks and produced a line
EmittedStep == hist'.ncalls = hist.ncalls + 1

\* pat occurs in text
Contains(text, pat) ==
    \E i \in 0..(Len(text) - Len(pat)) : \A k \in 1..Len(pat) : text[i + k] = pat[k]

\* the longest matching directive lets the level through
LevelPasses(level, target) ==
    \E i \in Matching(directives, target) :
        /\ \A j \in Matching(directives, target) :
              PrefixLen(directives[j]) <= PrefixLen(directives[i])
        /\ level <= directives[i].level

\* C14: a log call whose message text matches the content filter, or whose
\* level is disabled for its module (whether or not the filter matches), lets
\* nothing out: no line in a file, none on stderr, no copy on stdout, and the
\* writer (file, counter, index) and the threads are as before.
C14_FilterExcludes_Step ==
    (/\ state = "INITIALIZED"
     /\ CallStep
     /\ \/ IsSome(o_filter) /\ Contains(probe'.text, Unwrap(o_filter))
        \/ ~LevelPasses(probe'.level, probe'.target))
    => UNCHANGED <<disk, stdout, stderr, writer_vars, thread_vars, hist>>

C14_FilterExcludes == [][C14_FilterExcludes_Step]_vars

\* C14 witness: a filter is set, a line has been written to the file, and the
\* last call was enabled by its level but carried a text the filter matches
\* behind its first character.
C14_Witness ==
    /\ state = "INITIALIZED"
    /\ IsSome(o_filter)
    /\ LevelPasses(probe.level, probe.target)
    /\ Contains(probe.text, Unwrap(o_filter))
    /\ ~starts_with(probe.text, Unwrap(o_filter))
    /\ \E n \in DOMAIN disk : own_lines(disk[n]) # <<>>
    /\ AtRest

\* duplication is configured for the level
DupConfigured(level) ==
    \/ cfg_now.duplicate_error /\ level = Error
    \/ cfg_now.duplicate_info /\ level = Info

\* C15 as claimed: with duplication configured for its level, every emitted
\* line is also written to stdout, whatever the primary destination.
C15_DupAnyDestination_Claimed ==
    [][(state = "INITIALIZED" /\ CallStep /\ EmittedStep /\ DupConfigured(probe'.level))
          => stdout' = Append(stdout, <<"dup", hist'.ncalls>>)]_vars

\* C15 (amended): when the log is written to a file and duplication is
\* configured for its level, every emitted line is also written to stdout,
\* before the writer is entered and so whether or not the call triggers a
\* rotation and whether or not the writer is mounted; when the primary
\* destination is stderr nothing is copied to stdout.
C15_DupWhenToFile_Step ==
    (state = "INITIALIZED" /\ CallStep /\ EmittedStep) =>
        IF cfg_now.log_to_file /\ DupConfigured(probe'.level)
        THEN /\ stdout' = Append(stdout, <<"dup", hist'.ncalls>>)
             /\ \E t \in Threads : pc[t] = "idle" /\ pc'[t] = "lock"
        ELSE stdout' = stdout

C15_DupWhenToFile == [][C15_DupWhenToFile_Step]_vars

\* C15 witness: the copy of an Info line is the last thing on stdout while its
\* call is about to remount the writer.
C15_Witness ==
    /\ state = "INITIALIZED"
    /\ pc[1] = "remount"
    /\ probe.level = Info
    /\ cfg_now.duplicate_info
    /\ stdout # <<>>
    /\ stdout[Len(stdout)] = <<"dup", rec[1].id>>

\* C16 as claimed: with duplicate_info and log_to_file, every emitted record of
\* level Warn and every emitted record of level Info has a copy on stdout.
C16_DupWarnAndInfo_Claimed ==
    [][(/\ state = "INITIALIZED" /\ CallStep /\ EmittedStep
        /\ cfg_now.log_to_file /\ cfg_now.duplicate_info
        /\ probe'.level \in {Warn, Info})
          => stdout' = Append(stdout, <<"dup", hist'.ncalls>>)]_vars

----------------------------------------------------------------------------
(* Order of write and rollover test *)

\* the lines this run has put into the mounted file
CurrentLines == IF Unwrap(olw) \in DOMAIN disk THEN own_lines(disk[Unwrap(olw)]) ELSE <<>>

\* thread t completes its write in this step
WriteStep(t) == pc[t] = "write" /\ pc'[t] = "idle"

C18_RollsBeforeWrite_State ==
    use_rolling =>
        /\ \A t \in Threads : pc[t] = "write" => written_bytes <= Threshold
        /\ (AtRest /\ written_bytes > Threshold) =>
              /\ IsSome(olw)
              /\ CurrentLines # <<>>
              /\ written_bytes - CurrentLines[Len(CurrentLines)][2] <= Threshold

C18_RollsBeforeWrite_Step ==
    (\E t \in Threads : WriteStep(t)) =>
        /\ olw' = olw
        /\ roll_idx' = roll_idx
        /\ hist'.remounts = hist.remounts

----------------------------------------------------------------------------
\* C19 as claimed: a writer that was mounted at construction is mounted
\* whenever no log call is inside the critical section, that is at the start
\* and at the end of every log call.
C19_StaysMounted_Claimed ==
    (hist.built /\ IsSome(o_filename_base) /\ AtRest) => IsSome(olw)

\* C20 as claimed: after construction the index never decreases and the file
\* name base never changes; with rolling the counter is set to 0 exactly at the
\* steps that mount a new file, otherwise only grows by the length of a written
\* line, and equals the bytes written to the mounted file; without rolling
\* counter, index and file never change.
C20_CounterAndIndex_StateClaimed ==
    (hist.built /\ use_rolling /\ IsSome(olw)) => written_bytes = LineBytes(CurrentLines)

C20_CounterAndIndex_StepClaimed ==
    state = "INITIALIZED" =>
        /\ roll_idx' >= roll_idx
        /\ o_filename_base' = o_filename_base
        /\ use_rolling =>
              /\ (written_bytes' = 0 /\ written_bytes # 0) => (IsSome(olw') /\ olw' # olw)
              /\ olw' # olw => (IsSome(olw') /\ written_bytes' = 0)
              /\ (written_bytes' # written_bytes /\ written_bytes' # 0) =>
                    \E t \in Threads :
                        WriteStep(t) /\ written_bytes' = written_bytes + rec[t].len
        /\ ~use_rolling =>
              /\ written_bytes' = written_bytes
              /\ roll_idx' = roll_idx
              /\ olw' = olw

C20_CounterAndIndex_Claimed ==
    [](C20_CounterAndIndex_StateClaimed) /\ [][C20_CounterAndIndex_StepClaimed]_vars

----------------------------------------------------------------------------
(* Reload of the specification file *)

\* the documents the watcher has had in hand, the initial one first
Documents == <<hist.initial>> \o hist.seen

GoodDocuments == {k \in 1..Len(Documents) : Slashes(Documents[k]) <= 1}

\* the last document that parses
LastGood == Documents[MaxOf(GoodDocuments)]

\* the global level a document of one level name sets
GlobalLevel(text) == Unwrap(parse_level(text))

\* C17: the active specification is replaced at runtime from the watched file.
\* Whenever the watcher is not in the middle of a replace, the active
\* specification is the one of the last parsable document it has read (a valid
\* document takes effect without restart, an unparsable one leaves the last
\* good one active); once the watcher is idle with no change pending, that is
\* the file's content if it parses; and an enabled check that read the active
\* specification after the last replace returned answers by the current
\* specification, never an older one.
C17_ReloadReplaces ==
    /\ watcher.pc = "idle" =>
          /\ directives = <<LogDirective(None, GlobalLevel(LastGood))>>
          /\ (~watcher.pending /\ Slashes(disk[SpecFile]) <= 1) =>
                directives = <<LogDirective(None, GlobalLevel(disk[SpecFile]))>>
    /\ \A t \in Threads :
          (pc[t] = "read" /\ ~rec[t].stale) => rec[t].dirs = directives
    /\ (probe # <<>> /\ ~probe.stale /\ watcher.pc = "idle") =>
          probe.result = (probe.level <= GlobalLevel(LastGood))

\* C17 witness: the logger started at Error (Info disabled); the file was
\* replaced by a document at Debug and then by an unparsable one; the watcher
\* has handled both; an Info call that read the specification afterwards is
\* enabled.
C17_Witness ==
    /\ hist.initial = <<"e","r","r","o","r">>
    /\ hist.seen = << <<"d","e","b","u","g">>, <<"/","/">> >>
    /\ watcher.pc = "idle"
    /\ probe # <<>>
    /\ ~probe.stale
    /\ probe.level = Info
    /\ probe.result = TRUE

----------------------------------------------------------------------------
\* C21: a text with more than one '/' is a whole-parse failure: whatever rules
\* stand before the first '/', the parser returns no directive and no content
\* filter (and one diagnostic), init sets the maximum level to Off, and the
\* enabled check of the logger built from it answers "disabled" for every
\* level and every module path, so that no log call gets past line 260.
C21_TooManySlashes ==
    (probe.op # "text" /\ Slashes(probe.text) >= 2) =>
        /\ probe.raw = <<>>
        /\ directives = <<>>
        /\ o_filter = None
        /\ max_level = Off
        /\ stderr = <<"too many '/'s">>
        /\ probe.op = "enabled" => Asked.result = FALSE

\* C21 witness: the text has two '/', its first rule alone would enable the
\* module at every level, and the enabled check was asked for that module at
\* level Error and answered "disabled".
C21_Witness ==
    /\ probe.op = "enabled"
    /\ Slashes(probe.text) >= 2
    /\ RulesOf(probe.text) # <<>>
    /\ RulesOf(probe.text)[1] = <<"a">>
    /\ Asked.target = <<"a">>
    /\ Asked.level = Error
    /\ Asked.result = FALSE

----------------------------------------------------------------------------
\* the diagnostics of line 100 that stderr holds
DirDiags == {k \in 1..Len(stderr) : stderr[k] = "output directory could not be created"}

\* C22 as claimed: the diagnostic "output directory ... does not exist and
\* could not be created" is printed exactly if creating the directory failed:
\* at most once, never when the directory exists, and once when a logger that
\* writes to a file was constructed without a usable directory.  (A logger
\* that writes to stderr constructs no file writer, lines 87-90; its stderr
\* holds the log lines and is left aside.)
C22_DiagOnlyOnFailure_Claimed ==
    (state = "INITIALIZED" => cfg_now.log_to_file) =>
        /\ Cardinality(DirDiags) <= 1
        /\ dirState = "ok" => DirDiags = {}
        /\ (state = "INITIALIZED" /\ dirState # "ok") => Cardinality(DirDiags) = 1

====
